---- MODULE Spec2Model ----
(***************************************************************************)
(* nextjs-to-openapi: the route-to-specification pipeline.                 *)
(*   cmd/main.go                 buildOpenAPISpec, writeOpenAPIFile, Run   *)
(*   internal/scanner/scanner.go Scanner.ScanRoutes, isRouteFile, and the  *)
(*                               ollama client (DocumentRoute, sendRequest,*)
(*                               parseResponse, cleanMarkdownJSON)         *)
(* Texts are sequences of one-character strings, so that the sanitizer and *)
(* the JSON decoding work on the characters of a reply.                    *)
(***************************************************************************)
EXTENDS Integers, Sequences, FiniteSets, TLC

VARIABLES
    \* the reply sanitizer applied to one raw reply (SpecText)
    raw, cleaned, cleanedFenced, cleanedTwice, parsed, tstage,
    \* the route discoverer and the start of a run (SpecScan)
    tree, scanned, sstage,
    \* one run of the pipeline over the discovered routes (Spec)
    routes, service, run, pc, i, sent, res, paths, inflight, calls, settled,
    outputs, exit

textVars == <<raw, cleaned, cleanedFenced, cleanedTwice, parsed, tstage>>
scanVars == <<tree, scanned, sstage>>
pipeVars == <<routes, service, run, pc, i, sent, res, paths, inflight,
              calls, settled, outputs>>
vars == <<textVars, scanVars, pipeVars, exit>>

----------------------------------------------------------------------------
(* Texts *)

Chars(str) == [k \in 1..Len(str) |-> SubSeq(str, k, k)]

Min(S) == CHOOSE x \in S : \A y \in S : x <= y
Max(S) == CHOOSE x \in S : \A y \in S : x >= y

\* strings.HasPrefix(s[k-1:], p), with k a 1-based position
HasPrefixAt(s, k, p) ==
    /\ k + Len(p) - 1 <= Len(s)
    /\ SubSeq(s, k, k + Len(p) - 1) = p

\* strings.ReplaceAll(s, old, new): the leftmost non-overlapping occurrences
\* of old, from position k on: the text up to the next occurrence, new, and
\* the rest after that occurrence (old is never empty here)
RECURSIVE ReplaceAllFrom(_, _, _, _)
ReplaceAllFrom(s, old, new, k) ==
    LET found == {j \in k..Len(s) : HasPrefixAt(s, j, old)}
    IN  IF found = {} THEN SubSeq(s, k, Len(s))
        ELSE LET j == CHOOSE x \in found : \A y \in found : x <= y
             IN  SubSeq(s, k, j - 1) \o new
                     \o ReplaceAllFrom(s, old, new, j + Len(old))

ReplaceAll(s, old, new) == ReplaceAllFrom(s, old, new, 1)

\* unicode.IsSpace restricted to the characters of the model's alphabet
IsSpace(c) == c \in {" ", "\t", "\n", "\r"}

\* strings.TrimLeftFunc(s, unicode.IsSpace)
TrimLeft(s) ==
    LET kept == {k \in 1..Len(s) : ~IsSpace(s[k])}
    IN  IF kept = {} THEN <<>>
        ELSE SubSeq(s, CHOOSE k \in kept : \A j \in kept : k <= j, Len(s))

\* strings.TrimRightFunc(s, unicode.IsSpace)
TrimRight(s) ==
    LET kept == {k \in 1..Len(s) : ~IsSpace(s[k])}
    IN  IF kept = {} THEN <<>>
        ELSE SubSeq(s, 1, CHOOSE k \in kept : \A j \in kept : k >= j)

\* strings.TrimSpace
TrimSpace(s) == TrimRight(TrimLeft(s))

\* strings.Index(s, c) for a one-character c: 0-based, -1 when absent
Index(s, c) ==
    IF \E k \in 1..Len(s) : s[k] = c
    THEN (CHOOSE k \in 1..Len(s) :
              s[k] = c /\ \A j \in 1..(k - 1) : s[j] # c) - 1
    ELSE -1

\* strings.LastIndex(s, c) for a one-character c: 0-based, -1 when absent
LastIndex(s, c) ==
    IF \E k \in 1..Len(s) : s[k] = c
    THEN (CHOOSE k \in 1..Len(s) :
              s[k] = c /\ \A j \in (k + 1)..Len(s) : s[j] # c) - 1
    ELSE -1

\* The backquote (U+0060), which a TLA+ string literal cannot hold: the one
\* character of the alphabet that is written by name
Backquote == "BQ"

\* the marker removed by cleanMarkdownJSON: three backquotes and JSON
FenceMarker == <<Backquote, Backquote, Backquote>> \o Chars("JSON")

\* cleanMarkdownJSON without the brace slicing (a mutant of the sanitizer)
cleanMarkdownJSONNoSlice(response) ==
    TrimSpace(ReplaceAll(response, FenceMarker, <<>>))

\* cleanMarkdownJSON, lines 253-261: the span from the first { to the last }
sliceBraces(response, start, end) ==
    IF start # -1 /\ end # -1 /\ end > start
    THEN SubSeq(response, start + 1, end + 1)      \* response[start : end+1]
    ELSE response

firstToLastBrace(response) ==
    sliceBraces(response, Index(response, "{"), LastIndex(response, "}"))

\* cleanMarkdownJSON
cleanMarkdownJSON(response) ==
    firstToLastBrace(TrimSpace(ReplaceAll(response, FenceMarker, <<>>)))

----------------------------------------------------------------------------
(* encoding/json, as far as the replies of the model's alphabet need it:   *)
(* objects, arrays, strings with the escapes \" \\ \/ \n \t \r, the three  *)
(* literals and integers. A JSON value is a record of one shape:           *)
(*   k      "null" | "bool" | "num" | "str" | "arr" | "obj"                *)
(*   s      the characters of a string, or of a number                     *)
(*   b      the value of a boolean                                         *)
(*   keys   the member names of an object, in the order of the text        *)
(*   items  the members' values, or the elements of an array               *)
(* Each step of the scanner is an operator of its own that is handed what  *)
(* the step before it found.                                               *)

JNull == [k |-> "null", s |-> <<>>, b |-> FALSE, keys |-> <<>>, items |-> <<>>]
JBool(b) == [JNull EXCEPT !.k = "bool", !.b = b]
JNum(s) == [JNull EXCEPT !.k = "num", !.s = s]
JStr(s) == [JNull EXCEPT !.k = "str", !.s = s]
JArr(items) == [JNull EXCEPT !.k = "arr", !.items = items]
JObj(keys, items) == [JNull EXCEPT !.k = "obj", !.keys = keys, !.items = items]

\* the scanner's result: a value and the position after it, or a syntax error
Scanned(v, n) == [ok |-> TRUE, v |-> v, n |-> n]
SyntaxError == [ok |-> FALSE, v |-> JNull, n |-> 0]

JsonSpace == {" ", "\t", "\n", "\r"}
Digits == {"0", "1", "2", "3", "4", "5", "6", "7", "8", "9"}

\* the character an escape sequence \c stands for
Unescape(c) ==
    IF c = "n" THEN "\n" ELSE IF c = "t" THEN "\t" ELSE IF c = "r" THEN "\r"
    ELSE c

RECURSIVE SkipWs(_, _)
SkipWs(s, k) ==
    IF k <= Len(s) /\ s[k] \in JsonSpace THEN SkipWs(s, k + 1) ELSE k

\* the number of backslashes that end right before position p, counted back
\* no further than position k
BackslashesBefore(s, k, p) ==
    p - Min({r \in k..p : \A q \in r..(p - 1) : s[q] = "\\"})

\* inside the string literal that starts at k: a backslash that is not itself
\* escaped introduces an escape sequence
Introduces(s, k, p) == s[p] = "\\" /\ BackslashesBefore(s, k, p) % 2 = 0

\* the quotes from k on that no backslash escapes
ClosingQuotes(s, k) ==
    {p \in k..Len(s) : s[p] = "\"" /\ BackslashesBefore(s, k, p) % 2 = 0}

\* no raw control character, and only the known escape sequences
ValidStringBody(s, k, e) ==
    \A p \in k..(e - 1) :
        /\ s[p] \notin {"\n", "\t", "\r"}
        /\ Introduces(s, k, p) => s[p + 1] \in {"\"", "\\", "/", "n", "t", "r"}

\* the positions of k..e-1 that give a character of the string
KeptPositions(s, k, e) ==
    SelectSeq([p \in 1..(e - k) |-> k + p - 1], LAMBDA p : ~Introduces(s, k, p))

Unescaped(s, k, at) ==
    [x \in 1..Len(at) |->
        IF at[x] > k /\ Introduces(s, k, at[x] - 1)
        THEN Unescape(s[at[x]]) ELSE s[at[x]]]

StringEndingAt(s, k, e) ==
    IF ValidStringBody(s, k, e)
    THEN Scanned(JStr(Unescaped(s, k, KeptPositions(s, k, e))), e + 1)
    ELSE SyntaxError

StringAmong(s, k, closing) ==
    IF closing = {} THEN SyntaxError ELSE StringEndingAt(s, k, Min(closing))

\* a string literal from position k, the one after its opening quote: it ends
\* at the first quote that no backslash escapes
ScanString(s, k) == StringAmong(s, k, ClosingQuotes(s, k))

RECURSIVE ScanDigits(_, _)
ScanDigits(s, k) ==
    IF k <= Len(s) /\ s[k] \in Digits THEN ScanDigits(s, k + 1) ELSE k

NumberUpTo(s, k, d, e) ==
    IF e = d THEN SyntaxError ELSE Scanned(JNum(SubSeq(s, k, e - 1)), e)

NumberFrom(s, k, d) ==
    NumberUpTo(s, k, d,
               IF d <= Len(s) /\ s[d] = "0" THEN d + 1 ELSE ScanDigits(s, d))

\* an integer: -?(0|[1-9][0-9]*)
ScanNumber(s, k) == NumberFrom(s, k, IF s[k] = "-" THEN k + 1 ELSE k)

RECURSIVE ParseValue(_, _)
RECURSIVE ValueAt(_, _)
RECURSIVE ObjectAt(_, _)
RECURSIVE ArrayAt(_, _)
RECURSIVE ParseMembers(_, _, _, _)
RECURSIVE MemberColon(_, _, _, _)
RECURSIVE MemberValue(_, _, _, _)
RECURSIVE MemberEnd(_, _, _, _)
RECURSIVE MemberNext(_, _, _, _)
RECURSIVE ParseElems(_, _, _)
RECURSIVE ElemEnd(_, _, _)
RECURSIVE ElemNext(_, _, _)

\* the JSON value that starts at position k0, after optional white space
ParseValue(s, k0) == ValueAt(s, SkipWs(s, k0))

ValueAt(s, k) ==
    IF k > Len(s) THEN SyntaxError
    ELSE IF s[k] = "{" THEN ObjectAt(s, SkipWs(s, k + 1))
    ELSE IF s[k] = "[" THEN ArrayAt(s, SkipWs(s, k + 1))
    ELSE IF s[k] = "\"" THEN ScanString(s, k + 1)
    ELSE IF HasPrefixAt(s, k, Chars("null")) THEN Scanned(JNull, k + 4)
    ELSE IF HasPrefixAt(s, k, Chars("true")) THEN Scanned(JBool(TRUE), k + 4)
    ELSE IF HasPrefixAt(s, k, Chars("false")) THEN Scanned(JBool(FALSE), k + 5)
    ELSE IF s[k] \in Digits \cup {"-"} THEN ScanNumber(s, k)
    ELSE SyntaxError

\* after an opening brace: the empty object, or the members
ObjectAt(s, m) ==
    IF m <= Len(s) /\ s[m] = "}" THEN Scanned(JObj(<<>>, <<>>), m + 1)
    ELSE ParseMembers(s, m, <<>>, <<>>)

\* after an opening bracket: the empty array, or the elements
ArrayAt(s, m) ==
    IF m <= Len(s) /\ s[m] = "]" THEN Scanned(JArr(<<>>), m + 1)
    ELSE ParseElems(s, m, <<>>)

\* the members of an object from the position of a member name: the name,
\* the colon, the value, and a comma or the closing brace
ParseMembers(s, k, keys, items) ==
    IF k > Len(s) \/ s[k] # "\"" THEN SyntaxError
    ELSE MemberColon(s, ScanString(s, k + 1), keys, items)

MemberColon(s, key, keys, items) ==
    IF ~key.ok THEN SyntaxError
    ELSE MemberValue(s, SkipWs(s, key.n), Append(keys, key.v.s), items)

MemberValue(s, c, keys, items) ==
    IF c > Len(s) \/ s[c] # ":" THEN SyntaxError
    ELSE MemberEnd(s, ParseValue(s, c + 1), keys, items)

MemberEnd(s, val, keys, items) ==
    IF ~val.ok THEN SyntaxError
    ELSE MemberNext(s, SkipWs(s, val.n), keys, Append(items, val.v))

MemberNext(s, e, keys, items) ==
    IF e > Len(s) THEN SyntaxError
    ELSE IF s[e] = "}" THEN Scanned(JObj(keys, items), e + 1)
    ELSE IF s[e] = "," THEN ParseMembers(s, SkipWs(s, e + 1), keys, items)
    ELSE SyntaxError

\* the elements of an array from the position of an element
ParseElems(s, k, items) == ElemEnd(s, ParseValue(s, k), items)

ElemEnd(s, val, items) ==
    IF ~val.ok THEN SyntaxError
    ELSE ElemNext(s, SkipWs(s, val.n), Append(items, val.v))

ElemNext(s, e, items) ==
    IF e > Len(s) THEN SyntaxError
    ELSE IF s[e] = "]" THEN Scanned(JArr(items), e + 1)
    ELSE IF s[e] = "," THEN ParseElems(s, e + 1, items)
    ELSE SyntaxError

WholeInput(data, r) ==
    IF r.ok /\ SkipWs(data, r.n) > Len(data) THEN r ELSE SyntaxError

\* json.Unmarshal's reading of its whole input: one value and nothing after it
ParseDocument(data) == WholeInput(data, ParseValue(data, 1))

\* json.Decoder.Decode's reading of a stream: its first value
ParseFirst(data) == ParseValue(data, 1)

----------------------------------------------------------------------------
(* json.Unmarshal into the client's types (scanner.go, lines 91-116). Go   *)
(* matches a member name to a field ignoring letter case, skips unknown    *)
(* members, leaves a field alone on null, and reports a value of the wrong *)
(* kind as an error after decoding the rest.                               *)

UpperLetters == Chars("ABCDEFGHIJKLMNOPQRSTUVWXYZ")
LowerLetters == Chars("abcdefghijklmnopqrstuvwxyz")

ToLowerChar(c) ==
    IF \E k \in DOMAIN UpperLetters : UpperLetters[k] = c
    THEN LowerLetters[CHOOSE k \in DOMAIN UpperLetters : UpperLetters[k] = c]
    ELSE c

\* strings.ToLower
ToLower(s) == [k \in 1..Len(s) |-> ToLowerChar(s[k])]

\* whether the member named key fills the field tagged name
FieldIs(key, name) == ToLower(key) = Chars(name)

\* a map of Go as a function; m[k] = v
Put(m, k, v) == [x \in (DOMAIN m) \cup {k} |-> IF x = k THEN v ELSE m[x]]
EmptyMap == [x \in {} |-> x]

\* a decoded value, and whether every JSON value met had the kind of its field
Decoded(ok, val) == [ok |-> ok, val |-> val]

DecodeString(v, cur) ==
    IF v.k = "null" THEN Decoded(TRUE, cur)
    ELSE IF v.k = "str" THEN Decoded(TRUE, v.s)
    ELSE Decoded(FALSE, cur)

DecodeBool(v, cur) ==
    IF v.k = "null" THEN Decoded(TRUE, cur)
    ELSE IF v.k = "bool" THEN Decoded(TRUE, v.b)
    ELSE Decoded(FALSE, cur)

\* type Parameter
ZeroParameter == [Name |-> <<>>, Type |-> <<>>, In |-> <<>>, Required |-> FALSE]

SetName(acc, d) == Decoded(acc.ok /\ d.ok, [acc.val EXCEPT !.Name = d.val])
SetType(acc, d) == Decoded(acc.ok /\ d.ok, [acc.val EXCEPT !.Type = d.val])
SetIn(acc, d) == Decoded(acc.ok /\ d.ok, [acc.val EXCEPT !.In = d.val])
SetRequired(acc, d) ==
    Decoded(acc.ok /\ d.ok, [acc.val EXCEPT !.Required = d.val])

DecodeParameterMember(key, v, acc) ==
    IF FieldIs(key, "name") THEN SetName(acc, DecodeString(v, acc.val.Name))
    ELSE IF FieldIs(key, "type") THEN SetType(acc, DecodeString(v, acc.val.Type))
    ELSE IF FieldIs(key, "in") THEN SetIn(acc, DecodeString(v, acc.val.In))
    ELSE IF FieldIs(key, "required")
         THEN SetRequired(acc, DecodeBool(v, acc.val.Required))
    ELSE acc

RECURSIVE DecodeParameterMembers(_, _, _)
DecodeParameterMembers(obj, k, acc) ==
    IF k > Len(obj.keys) THEN acc
    ELSE DecodeParameterMembers(obj, k + 1,
             DecodeParameterMember(obj.keys[k], obj.items[k], acc))

DecodeParameter(v, cur) ==
    IF v.k = "null" THEN Decoded(TRUE, cur)
    ELSE IF v.k = "obj" THEN DecodeParameterMembers(v, 1, Decoded(TRUE, cur))
    ELSE Decoded(FALSE, cur)

\* []Parameter from the elements of an array
AppendElem(acc, d) == Decoded(acc.ok /\ d.ok, Append(acc.val, d.val))

RECURSIVE DecodeParameterElems(_, _, _)
DecodeParameterElems(arr, k, acc) ==
    IF k > Len(arr.items) THEN acc
    ELSE DecodeParameterElems(arr, k + 1,
             AppendElem(acc, DecodeParameter(arr.items[k], ZeroParameter)))

DecodeParameters(v, cur) ==
    IF v.k = "null" THEN Decoded(TRUE, <<>>)
    ELSE IF v.k = "arr" THEN DecodeParameterElems(v, 1, Decoded(TRUE, <<>>))
    ELSE Decoded(FALSE, cur)

\* type Method
ZeroMethod == [Summary |-> <<>>, Description |-> <<>>, Parameters |-> <<>>]

SetSummary(acc, d) == Decoded(acc.ok /\ d.ok, [acc.val EXCEPT !.Summary = d.val])
SetDescription(acc, d) ==
    Decoded(acc.ok /\ d.ok, [acc.val EXCEPT !.Description = d.val])
SetParameters(acc, d) ==
    Decoded(acc.ok /\ d.ok, [acc.val EXCEPT !.Parameters = d.val])

DecodeMethodMember(key, v, acc) ==
    IF FieldIs(key, "summary")
    THEN SetSummary(acc, DecodeString(v, acc.val.Summary))
    ELSE IF FieldIs(key, "description")
         THEN SetDescription(acc, DecodeString(v, acc.val.Description))
    ELSE IF FieldIs(key, "parameters")
         THEN SetParameters(acc, DecodeParameters(v, acc.val.Parameters))
    ELSE acc

RECURSIVE DecodeMethodMembers(_, _, _)
DecodeMethodMembers(obj, k, acc) ==
    IF k > Len(obj.keys) THEN acc
    ELSE DecodeMethodMembers(obj, k + 1,
             DecodeMethodMember(obj.keys[k], obj.items[k], acc))

DecodeMethod(v, cur) ==
    IF v.k = "null" THEN Decoded(TRUE, cur)
    ELSE IF v.k = "obj" THEN DecodeMethodMembers(v, 1, Decoded(TRUE, cur))
    ELSE Decoded(FALSE, cur)

\* map[string]Method: the member names are kept as the text has them, and a
\* name met twice keeps its last value
PutMethod(acc, key, d) == Decoded(acc.ok /\ d.ok, Put(acc.val, key, d.val))

RECURSIVE DecodeMethodsMembers(_, _, _)
DecodeMethodsMembers(obj, k, acc) ==
    IF k > Len(obj.keys) THEN acc
    ELSE DecodeMethodsMembers(obj, k + 1,
             PutMethod(acc, obj.keys[k], DecodeMethod(obj.items[k], ZeroMethod)))

DecodeMethods(v, cur) ==
    IF v.k = "null" THEN Decoded(TRUE, EmptyMap)
    ELSE IF v.k = "obj" THEN DecodeMethodsMembers(v, 1, Decoded(TRUE, cur))
    ELSE Decoded(FALSE, cur)

\* type RouteDocumentation
ZeroRouteDocumentation ==
    [Path |-> <<>>, Methods |-> EmptyMap, Description |-> <<>>]

SetPath(acc, d) == Decoded(acc.ok /\ d.ok, [acc.val EXCEPT !.Path = d.val])
SetMethods(acc, d) == Decoded(acc.ok /\ d.ok, [acc.val EXCEPT !.Methods = d.val])

DecodeRouteDocumentationMember(key, v, acc) ==
    IF FieldIs(key, "path") THEN SetPath(acc, DecodeString(v, acc.val.Path))
    ELSE IF FieldIs(key, "methods")
         THEN SetMethods(acc, DecodeMethods(v, acc.val.Methods))
    ELSE IF FieldIs(key, "description")
         THEN SetDescription(acc, DecodeString(v, acc.val.Description))
    ELSE acc

RECURSIVE DecodeRouteDocumentationMembers(_, _, _)
DecodeRouteDocumentationMembers(obj, k, acc) ==
    IF k > Len(obj.keys) THEN acc
    ELSE DecodeRouteDocumentationMembers(obj, k + 1,
             DecodeRouteDocumentationMember(obj.keys[k], obj.items[k], acc))

DecodeRouteDocumentation(r) ==
    IF ~r.ok THEN Decoded(FALSE, ZeroRouteDocumentation)
    ELSE IF r.v.k = "null" THEN Decoded(TRUE, ZeroRouteDocumentation)
    ELSE IF r.v.k = "obj"
         THEN DecodeRouteDocumentationMembers(r.v, 1,
                  Decoded(TRUE, ZeroRouteDocumentation))
    ELSE Decoded(FALSE, ZeroRouteDocumentation)

\* json.Unmarshal([]byte(text), &doc) with doc a zero RouteDocumentation
UnmarshalRouteDocumentation(text) ==
    DecodeRouteDocumentation(ParseDocument(text))

\* type OllamaResponse
ZeroOllamaResponse == [Response |-> <<>>, Done |-> FALSE]

SetResponse(acc, d) == Decoded(acc.ok /\ d.ok, [acc.val EXCEPT !.Response = d.val])
SetDone(acc, d) == Decoded(acc.ok /\ d.ok, [acc.val EXCEPT !.Done = d.val])

DecodeOllamaResponseMember(key, v, acc) ==
    IF FieldIs(key, "response")
    THEN SetResponse(acc, DecodeString(v, acc.val.Response))
    ELSE IF FieldIs(key, "done") THEN SetDone(acc, DecodeBool(v, acc.val.Done))
    ELSE acc

RECURSIVE DecodeOllamaResponseMembers(_, _, _)
DecodeOllamaResponseMembers(obj, k, acc) ==
    IF k > Len(obj.keys) THEN acc
    ELSE DecodeOllamaResponseMembers(obj, k + 1,
             DecodeOllamaResponseMember(obj.keys[k], obj.items[k], acc))

DecodeEnvelope(r) ==
    IF ~r.ok THEN Decoded(FALSE, ZeroOllamaResponse)
    ELSE IF r.v.k = "null" THEN Decoded(TRUE, ZeroOllamaResponse)
    ELSE IF r.v.k = "obj"
         THEN DecodeOllamaResponseMembers(r.v, 1, Decoded(TRUE, ZeroOllamaResponse))
    ELSE Decoded(FALSE, ZeroOllamaResponse)

\* json.NewDecoder(resp.Body).Decode(&ollamaResp)
DecodeOllamaResponse(body) == DecodeEnvelope(ParseFirst(body))

----------------------------------------------------------------------------
(* The generation client (package ollama). The service's answer to one     *)
(* request is what the HTTP round trip produced:                           *)
(*   transport  "ok", or "fail" (refused, reset, the 30 s timeout)         *)
(*   status     the status code of the final response                      *)
(*   body       the characters of the response body                        *)

StatusOK == 200

NoError == [kind |-> "none", code |-> 0]
Error(kind, code) == [kind |-> kind, code |-> code]

\* lines 213-218: the envelope's response text, or the decoding error
responseOf(d) ==
    IF ~d.ok
    THEN [response |-> <<>>, err |-> Error("decode", 0)]
    ELSE [response |-> d.val.Response, err |-> NoError]

\* Client.sendRequest: the prompt is posted and the answer read
sendRequest(answer) ==
    IF answer.transport # "ok"
    THEN [response |-> <<>>, err |-> Error("transport", 0)]
    ELSE IF answer.status # StatusOK
    THEN [response |-> <<>>, err |-> Error("status", answer.status)]
    ELSE responseOf(DecodeOllamaResponse(answer.body))

ZeroRouteDocumentationResult(err) == [doc |-> ZeroRouteDocumentation, err |-> err]

\* lines 236-241: the decoded record, or the parse error
documentOf(d) ==
    IF ~d.ok
    THEN ZeroRouteDocumentationResult(Error("parse", 0))
    ELSE [doc |-> d.val, err |-> NoError]

\* Client.parseResponse
parseResponse(response) ==
    documentOf(UnmarshalRouteDocumentation(cleanMarkdownJSON(response)))

\* Client.DocumentRoute from line 124 on: the error of sendRequest, or what
\* parseResponse makes of the reply
documentReply(r) ==
    IF r.err # NoError
    THEN ZeroRouteDocumentationResult(r.err)
    ELSE parseResponse(r.response)

\* Client.DocumentRoute, given the service's answer to the route's prompt
DocumentRoute(answer) == documentReply(sendRequest(answer))

----------------------------------------------------------------------------
(* The route discoverer (package scanner) over a directory tree. A node of *)
(* the tree is a directory entry:                                          *)
(*   name      its base name                                               *)
(*   kind      "file" | "symlink" | "dir", or "missing" for a root that    *)
(*             os.Lstat does not find                                      *)
(*   readable  a file or symlink: os.ReadFile succeeds; a directory:       *)
(*             os.ReadDir succeeds                                         *)
(*   entries   a directory's entries in os.ReadDir's order (by name)       *)

\* isRouteFile with the pattern left unanchored at its end (a mutant)
isRouteFilePrefix(filename) ==
    \E e \in {"js", "ts", "jsx", "tsx"} :
        /\ Len(filename) >= Len("route." \o e)
        /\ SubSeq(filename, 1, Len("route." \o e)) = "route." \o e

\* isRouteFile: the names matched by ^route\.(js|ts|jsx|tsx)$
isRouteFile(filename) ==
    filename \in {"route." \o e : e \in {"js", "ts", "jsx", "tsx"}}

\* strings.TrimPrefix(filepath.Ext(path), "."): what follows the last dot
FileType(name) ==
    LET dots == {k \in 1..Len(name) : SubSeq(name, k, k) = "."}
    IN  IF dots = {} THEN ""
        ELSE SubSeq(name, (CHOOSE k \in dots : \A j \in dots : k >= j) + 1,
                    Len(name))

NilError == "nil"

\* the callback that ScanRoutes hands to filepath.WalkDir: the routes after
\* the call and the error it returns
walkFn(found, path, d, err) ==
    IF err # NilError \/ d.kind = "dir"
    THEN [routes |-> found, ret |-> NilError]
    ELSE IF isRouteFile(d.name)
         THEN IF ~d.readable
              THEN [routes |-> found, ret |-> NilError]   \* skip problematic files
              ELSE [routes |-> Append(found,
                                   [FilePath |-> path,
                                    FileType |-> FileType(d.name),
                                    Content |-> "source of " \o path]),
                    ret |-> NilError]
         ELSE [routes |-> found, ret |-> NilError]

\* filepath.walkDir: the callback on the entry, then on a failed listing,
\* then the walk of each entry in turn until one returns an error
RECURSIVE walkDir(_, _, _)
RECURSIVE walkEntries(_, _, _, _)
walkDir(found, path, d) ==
    LET first == walkFn(found, path, d, NilError)
    IN  IF first.ret # NilError \/ d.kind # "dir" THEN first
        ELSE IF ~d.readable
             THEN walkFn(first.routes, path, d, "readdir " \o path)
             ELSE walkEntries(first.routes, path, d.entries, 1)

walkEntries(found, path, entries, k) ==
    IF k > Len(entries) THEN [routes |-> found, ret |-> NilError]
    ELSE LET one == walkDir(found, path \o "/" \o entries[k].name, entries[k])
         IN  IF one.ret # NilError THEN one
             ELSE walkEntries(one.routes, path, entries, k + 1)

\* filepath.WalkDir(root, fn): a root that Lstat does not find is reported
\* to the callback, whose answer is the walk's
WalkDir(root) ==
    IF root.kind = "missing"
    THEN walkFn(<<>>, root.name, root, "lstat " \o root.name)
    ELSE walkDir(<<>>, root.name, root)

\* Scanner.ScanRoutes: (routes, err)
ScanRoutes(root) ==
    LET w == WalkDir(root)
    IN  [routes |-> w.routes, err |-> w.ret]

----------------------------------------------------------------------------
(* buildOpenAPISpec and writeOpenAPIFile (cmd/main.go) *)

\* a slice of Go: nil until the first append
NilSlice == [isNil |-> TRUE, elems |-> <<>>]

\* lines 51-62: var fixedParams, and one append per parameter of the record
fixParameters(parameters) ==
    IF Len(parameters) = 0 THEN NilSlice
    ELSE [isNil |-> FALSE,
          elems |-> [k \in 1..Len(parameters) |->
                        [name |-> parameters[k].Name,
                         in |-> parameters[k].In,
                         required |-> parameters[k].Required,
                         schema |-> [type |-> parameters[k].Type]]]]

JsonContent(schema) == "application/json" :> [schema |-> schema]

ErrorSchema ==
    [type |-> "object", properties |-> [error |-> [type |-> "string"]]]

\* lines 65-107: the responses attached to every operation
Responses ==
    "200" :> [description |-> "Successful response",
              content |-> JsonContent([type |-> "object",
                                       description |-> "Response data"])]
    @@ "400" :> [description |-> "Bad request",
                 content |-> JsonContent(ErrorSchema)]
    @@ "500" :> [description |-> "Internal server error",
                 content |-> JsonContent(ErrorSchema)]

\* lines 109-114: the operation stored under a lower-cased method
Operation(details) ==
    [summary |-> details.Summary,
     description |-> details.Description,
     parameters |-> fixParameters(details.Parameters),
     responses |-> Responses]

\* the orders in which a range over a map with the keys S may visit them
Orders(S) ==
    {o \in [1..Cardinality(S) -> S] : \A a, b \in DOMAIN o : o[a] = o[b] => a = b}

\* lines 46-115: the range over doc.Methods visiting the keys in this order
RECURSIVE rangeMethods(_, _, _, _)
rangeMethods(doc, order, k, pathItem) ==
    IF k > Len(order) THEN pathItem
    ELSE rangeMethods(doc, order, k + 1,
             Put(pathItem, ToLower(order[k]), Operation(doc.Methods[order[k]])))

\* line 117 merging the methods into the entry the path has (a mutant)
insertPathMerging(specPaths, path, pathItem) ==
    IF path \in DOMAIN specPaths
    THEN Put(specPaths, path,
             [m \in (DOMAIN specPaths[path]) \cup (DOMAIN pathItem) |->
                 IF m \in DOMAIN pathItem THEN pathItem[m] ELSE specPaths[path][m]])
    ELSE Put(specPaths, path, pathItem)

\* line 117: spec.Paths[doc.Path] = pathItem
insertPath(specPaths, path, pathItem) == Put(specPaths, path, pathItem)

\* json.MarshalIndent of an operation: a nil slice is written as null, any
\* other slice as an array
MarshalOperation(op) ==
    [op EXCEPT !.parameters =
        IF op.parameters.isNil THEN JNull ELSE JArr(op.parameters.elems)]

\* json.MarshalIndent(spec): the document written to the output file
MarshalSpec(specPaths) ==
    [openapi |-> "3.0.0",
     info |-> [title |-> "Next.js API Documentation", version |-> "1.0.0"],
     paths |-> [p \in DOMAIN specPaths |->
                   [m \in DOMAIN specPaths[p] |-> MarshalOperation(specPaths[p][m])]]]

----------------------------------------------------------------------------
(* The inputs of the model *)

MaxPieces == 3
MaxEntries == 2
MaxRoutes == 2

Fence3 == <<Backquote, Backquote, Backquote>>

\* raw replies: up to MaxPieces of these pieces in a row
Pieces ==
    {FenceMarker, Fence3, Chars("JSON"), Chars("{"), Chars("}"), Chars("\n"),
     Chars(" ok"), Chars("nu"), Chars("ll"), Chars("\"path\":\"/x\"")}

RECURSIVE Concat(_)
Concat(ps) == IF ps = <<>> THEN <<>> ELSE Head(ps) \o Concat(Tail(ps))

RawReplies ==
    {Concat(ps) : ps \in UNION {[1..n -> Pieces] : n \in 0..MaxPieces}}

\* a payload wrapped in a fenced block: the marker, the payload on a line of
\* its own, and the closing fence
Fenced(t) == FenceMarker \o Chars("\n") \o t \o Chars("\n") \o Fence3

\* directory entries: the names in byte order, as os.ReadDir sorts them
EntryNames ==
    <<"Route.ts", "route.js", "route.json", "route.jsx", "route.ts",
      "route.tsx">>

Leaves ==
    {[name |-> EntryNames[k], kind |-> v[1], readable |-> v[2], entries |-> <<>>] :
        k \in DOMAIN EntryNames,
        v \in {<<"file", TRUE>>, <<"file", FALSE>>, <<"symlink", TRUE>>}}

NameRank(name) == CHOOSE k \in DOMAIN EntryNames : EntryNames[k] = name

\* up to MaxEntries leaves with increasing names
Listings ==
    {l \in UNION {[1..n -> Leaves] : n \in 0..MaxEntries} :
        \A a, b \in DOMAIN l : a < b => NameRank(l[a].name) < NameRank(l[b].name)}

\* a subdirectory: listable or not, holding at most one leaf
Subdirs ==
    {[name |-> "users", kind |-> "dir", readable |-> r, entries |-> e] :
        r \in BOOLEAN, e \in {<<>>} \cup {<<f>> : f \in Leaves}}

Trees ==
    {[name |-> "api", kind |-> "missing", readable |-> FALSE, entries |-> <<>>]}
    \cup {[name |-> "api", kind |-> "dir", readable |-> r, entries |-> l \o sub] :
            r \in BOOLEAN, l \in Listings, sub \in {<<>>} \cup {<<d>> : d \in Subdirs}}

\* the texts a model may reply with
PayloadA ==
    Chars("{\"path\":\"/a\",\"methods\":{\"GET\":{\"summary\":\"s\",\"parameters\":[{\"name\":\"id\",\"in\":\"path\",\"required\":true}]}}}")
PayloadA2 ==
    Chars("{\"path\":\"/a\",\"methods\":{\"POST\":{\"summary\":\"t\"},\"PUT\":{\"summary\":\"u\",\"parameters\":[]}}}")
PayloadCase ==
    Chars("{\"path\":\"/b\",\"methods\":{\"GET\":{\"summary\":\"s\"},\"get\":{\"summary\":\"t\"}}}")

ReplyTexts ==
    {PayloadA, Fenced(PayloadA2), PayloadCase,
     SubSeq(PayloadA, 1, Len(PayloadA) - 1),
     Chars("null"), Chars("I cannot document this file.")}

\* the service's encoding of a text as a JSON string
Quote(text) ==
    <<"\"">>
    \o ReplaceAll(ReplaceAll(ReplaceAll(text, <<"\\">>, <<"\\", "\\">>),
                             <<"\"">>, <<"\\", "\"">>),
                  <<"\n">>, <<"\\", "n">>)
    \o <<"\"">>

\* the body of a completed generation
Envelope(text) ==
    Chars("{\"model\":\"m\",\"response\":") \o Quote(text) \o Chars(",\"done\":true}")

Answers ==
    {[transport |-> "ok", status |-> 200, body |-> Envelope(t)] : t \in ReplyTexts}
    \cup {[transport |-> "ok", status |-> 201, body |-> Envelope(PayloadA2)],
          [transport |-> "ok", status |-> 404,
           body |-> Chars("{\"error\":\"model not found\"}")],
          [transport |-> "ok", status |-> 200, body |-> Chars("<html>")],
          [transport |-> "fail", status |-> 0, body |-> <<>>]}

\* the route units handed to buildOpenAPISpec
RouteUnit(k) ==
    [FilePath |-> "api/r" \o ToString(k) \o "/route.ts",
     FileType |-> "ts",
     Content |-> "source of api/r" \o ToString(k) \o "/route.ts"]

----------------------------------------------------------------------------
(* The states before anything has run *)

NothingSent == [response |-> <<>>, err |-> NoError]
NoResult == [doc |-> ZeroRouteDocumentation, err |-> NoError]
Unparsed == [plain |-> NoResult, fenced |-> NoResult]

TextIdle ==
    /\ raw = <<>> /\ cleaned = <<>> /\ cleanedFenced = <<>>
    /\ cleanedTwice = <<>> /\ parsed = Unparsed /\ tstage = "idle"

ScanIdle ==
    /\ tree = [name |-> "api", kind |-> "missing", readable |-> FALSE,
               entries |-> <<>>]
    /\ scanned = [routes |-> <<>>, err |-> NilError]
    /\ sstage = "idle"

PipeIdle ==
    /\ routes = <<>> /\ service = <<>> /\ run = "first" /\ pc = "idle"
    /\ i = 0 /\ sent = NothingSent /\ res = NoResult /\ paths = EmptyMap
    /\ inflight = 0 /\ calls = <<>> /\ settled = <<>> /\ outputs = <<>>

----------------------------------------------------------------------------
(* SpecText: the reply sanitizer and parser applied to one raw reply *)

InitText ==
    /\ raw \in RawReplies
    /\ cleaned = <<>> /\ cleanedFenced = <<>> /\ cleanedTwice = <<>>
    /\ parsed = Unparsed /\ tstage = "raw"
    /\ ScanIdle /\ PipeIdle /\ exit = "running"

Sanitize ==
    /\ tstage = "raw"
    /\ cleaned' = cleanMarkdownJSON(raw)
    /\ tstage' = "cleaned"
    /\ UNCHANGED <<raw, cleanedFenced, cleanedTwice, parsed, scanVars, pipeVars, exit>>

SanitizeFenced ==
    /\ tstage = "cleaned"
    /\ cleanedFenced' = cleanMarkdownJSON(Fenced(raw))
    /\ tstage' = "fenced"
    /\ UNCHANGED <<raw, cleaned, cleanedTwice, parsed, scanVars, pipeVars, exit>>

SanitizeAgain ==
    /\ tstage = "fenced"
    /\ cleanedTwice' = cleanMarkdownJSON(cleaned)
    /\ tstage' = "twice"
    /\ UNCHANGED <<raw, cleaned, cleanedFenced, parsed, scanVars, pipeVars, exit>>

Parse ==
    /\ tstage = "twice"
    /\ parsed' = [plain |-> parseResponse(raw),
                  fenced |-> parseResponse(Fenced(raw))]
    /\ tstage' = "parsed"
    /\ UNCHANGED <<raw, cleaned, cleanedFenced, cleanedTwice, scanVars, pipeVars, exit>>

NextText == Sanitize \/ SanitizeFenced \/ SanitizeAgain \/ Parse

SpecText == InitText /\ [][NextText]_vars

----------------------------------------------------------------------------
(* SpecScan: rootCmd.Run up to the call of buildOpenAPISpec *)

InitScan ==
    /\ tree \in Trees
    /\ scanned = [routes |-> <<>>, err |-> NilError]
    /\ sstage = "start"
    /\ TextIdle /\ PipeIdle /\ exit = "running"

\* line 161: routes, err := s.ScanRoutes()
ScanRoutesReturns ==
    /\ sstage = "start"
    /\ scanned' = ScanRoutes(tree)
    /\ sstage' = "scanned"
    /\ UNCHANGED <<tree, textVars, pipeVars, exit>>

\* lines 162-183: exit 1 on an error, return when no route was found, go on
\* to the generation otherwise
RunAfterScan ==
    /\ sstage = "scanned"
    /\ IF scanned.err # NilError
       THEN sstage' = "exited" /\ exit' = "status 1" /\ UNCHANGED routes
       ELSE IF Len(scanned.routes) = 0
            THEN sstage' = "exited" /\ exit' = "status 0" /\ UNCHANGED routes
            ELSE sstage' = "generating" /\ routes' = scanned.routes
                 /\ UNCHANGED exit
    /\ UNCHANGED <<tree, scanned, textVars, service, run, pc, i, sent, res,
                   paths, inflight, calls, settled, outputs>>

NextScan == ScanRoutesReturns \/ RunAfterScan

SpecScan == InitScan /\ [][NextScan]_vars

----------------------------------------------------------------------------
(* Spec: buildOpenAPISpec over the routes and the writing of its result,   *)
(* run twice against a service that answers each route's prompt the same.  *)

Init ==
    /\ \E n \in 1..MaxRoutes :
           /\ routes = [k \in 1..n |-> RouteUnit(k)]
           /\ service \in [1..n -> Answers]
           /\ calls = [k \in 1..n |-> 0]
           /\ settled = [k \in 1..n |-> "pending"]
    /\ run = "first" /\ pc = "loop" /\ i = 1
    /\ sent = NothingSent /\ res = NoResult /\ paths = EmptyMap
    /\ inflight = 0 /\ outputs = <<>>
    /\ TextIdle /\ ScanIdle /\ exit = "running"

\* lines 35-38 and scanner.go 177-201: the next route's prompt is posted
SendRequest ==
    /\ pc = "loop" /\ i <= Len(routes)
    /\ calls' = [calls EXCEPT ![i] = @ + 1]
    /\ inflight' = inflight + 1
    /\ pc' = "waiting"
    /\ UNCHANGED <<routes, service, run, i, sent, res, paths, settled, outputs,
                   textVars, scanVars, exit>>

\* scanner.go 201-219: the round trip ends and sendRequest returns
SendRequestReturns ==
    /\ pc = "waiting"
    /\ sent' = sendRequest(service[i])
    /\ inflight' = inflight - 1
    /\ pc' = "sent"
    /\ UNCHANGED <<routes, service, run, i, res, paths, calls, settled, outputs,
                   textVars, scanVars, exit>>

\* scanner.go 124-134: DocumentRoute returns the error, or what parseResponse
\* makes of the reply
DocumentRouteReturns ==
    /\ pc = "sent"
    /\ res' = documentReply(sent)
    /\ pc' = "returned"
    /\ UNCHANGED <<routes, service, run, i, sent, paths, inflight, calls,
                   settled, outputs, textVars, scanVars, exit>>

\* lines 39-42 leaving the loop on an error (a mutant)
SkipRouteAborts ==
    /\ pc = "returned" /\ res.err # NoError
    /\ settled' = [settled EXCEPT ![i] = "dropped"]
    /\ i' = Len(routes) + 1
    /\ pc' = "loop"
    /\ UNCHANGED <<routes, service, run, sent, res, paths, inflight, calls,
                   outputs, textVars, scanVars, exit>>

\* lines 39-42 trying the same route again on an error (a mutant)
SkipRouteRetries ==
    /\ pc = "returned" /\ res.err # NoError
    /\ calls[i] < 2
    /\ pc' = "loop"
    /\ UNCHANGED <<routes, service, run, i, sent, res, paths, inflight, calls,
                   settled, outputs, textVars, scanVars, exit>>

\* lines 39-42: the error is printed and the loop continues
SkipRoute ==
    /\ pc = "returned" /\ res.err # NoError
    /\ settled' = [settled EXCEPT ![i] = "dropped"]
    /\ i' = i + 1
    /\ pc' = "loop"
    /\ UNCHANGED <<routes, service, run, sent, res, paths, inflight, calls,
                   outputs, textVars, scanVars, exit>>

\* lines 45-117: the path item is built in the order the range over
\* doc.Methods happens to take, and stored under the record's path
AssembleRoute ==
    /\ pc = "returned" /\ res.err = NoError
    /\ \E order \in Orders(DOMAIN res.doc.Methods) :
           paths' = insertPath(paths, res.doc.Path,
                               rangeMethods(res.doc, order, 1, EmptyMap))
    /\ settled' = [settled EXCEPT ![i] = "inserted"]
    /\ i' = i + 1
    /\ pc' = "loop"
    /\ UNCHANGED <<routes, service, run, sent, res, inflight, calls, outputs,
                   textVars, scanVars, exit>>

\* lines 120 and 190-200: the document is returned and written; the write
\* may fail, and then the run exits with status 1
WriteOpenAPIFile ==
    /\ pc = "loop" /\ i > Len(routes)
    /\ \E written \in BOOLEAN :
           IF written
           THEN outputs' = Append(outputs, MarshalSpec(paths))
                /\ exit' = "status 0"
           ELSE outputs' = outputs /\ exit' = "status 1"
    /\ pc' = "done"
    /\ UNCHANGED <<routes, service, run, i, sent, res, paths, inflight, calls,
                   settled, textVars, scanVars>>

\* the tool is run a second time on the same routes
RunAgain ==
    /\ pc = "done" /\ run = "first"
    /\ run' = "second" /\ pc' = "loop" /\ i' = 1
    /\ sent' = NothingSent /\ res' = NoResult /\ paths' = EmptyMap
    /\ calls' = [k \in DOMAIN routes |-> 0]
    /\ settled' = [k \in DOMAIN routes |-> "pending"]
    /\ exit' = "running"
    /\ UNCHANGED <<routes, service, inflight, outputs, textVars, scanVars>>

Next ==
    \/ SendRequest
    \/ SendRequestReturns
    \/ DocumentRouteReturns
    \/ SkipRoute
    \/ AssembleRoute
    \/ WriteOpenAPIFile
    \/ RunAgain

Spec == Init /\ [][Next]_vars

----------------------------------------------------------------------------
(* What the properties below speak of *)

\* what sendRequest and DocumentRoute make of each answer of the service
Replies == [a \in Answers |-> sendRequest(a)]
Documented == [a \in Answers |-> DocumentRoute(a)]

Succeeded(k) == Documented[service[k]].err = NoError
DocOf(k) == Documented[service[k]].doc

\* the routes whose pipeline has completed
Processed == 1..(i - 1)

\* the last successful route among those processed that declares path p
LastWith(p) ==
    Max({k \in Processed : Succeeded(k) /\ DocOf(k).Path = p})

\* the keys of the path entry made from a record
LoweredKeys(doc) == {ToLower(m) : m \in DOMAIN doc.Methods}

\* item is an entry made from the record doc: under each lower-cased method
\* the operation of one of the record's methods with that lower-casing
IsEntryOf(item, doc) ==
    /\ DOMAIN item = LoweredKeys(doc)
    /\ \A key \in DOMAIN item :
           \E m \in DOMAIN doc.Methods :
               ToLower(m) = key /\ item[key] = Operation(doc.Methods[m])

----------------------------------------------------------------------------
(* C1: a failure of one route is isolated. At every point of the loop of   *)
(* buildOpenAPISpec, each route before the current one has had its call    *)
(* and has been inserted if DocumentRoute succeeded and dropped if it      *)
(* failed, whatever the failure; the paths mapping holds exactly the paths *)
(* of the successful records, each with the entry of the last successful   *)
(* record declaring it; the loop reaches the end of the routes; and the    *)
(* document written holds that mapping, the empty one when all failed.     *)
FailureIsolation ==
    /\ \A k \in Processed :
           /\ calls[k] = 1
           /\ settled[k] = IF Succeeded(k) THEN "inserted" ELSE "dropped"
    /\ DOMAIN paths = {DocOf(k).Path : k \in {j \in Processed : Succeeded(j)}}
    /\ \A p \in DOMAIN paths : IsEntryOf(paths[p], DocOf(LastWith(p)))
    /\ pc = "done" =>
           /\ Processed = DOMAIN routes
           /\ (\A k \in DOMAIN routes : ~Succeeded(k)) => paths = EmptyMap
           /\ exit = "status 0" =>
                  outputs[Len(outputs)].paths =
                      [p \in DOMAIN paths |->
                          [m \in DOMAIN paths[p] |-> MarshalOperation(paths[p][m])]]

\* a run that ended after a failed route was followed by a successful one
FailureIsolationWitness ==
    /\ pc = "done" /\ Len(routes) = 2
    /\ Documented[service[1]].err.kind = "transport"
    /\ Succeeded(2) /\ settled = <<"dropped", "inserted">>
    /\ DOMAIN paths = {DocOf(2).Path}

----------------------------------------------------------------------------
(* C2: a path declared twice is overwritten. When two successful records   *)
(* declare the same path and no later one does, the path's entry at the    *)
(* end of the run has exactly the lower-cased methods of the later record, *)
(* none that only the earlier record declared, and under each method an    *)
(* operation of the later record: the entry the later record alone gives,  *)
(* also when the two records are the same.                                 *)
LastWriterWins ==
    pc = "done" =>
        \A a, b \in DOMAIN routes :
            ( /\ a < b /\ Succeeded(a) /\ Succeeded(b)
              /\ DocOf(a).Path = DocOf(b).Path
              /\ \A c \in DOMAIN routes :
                     c > b /\ Succeeded(c) => DocOf(c).Path # DocOf(b).Path )
            => /\ DocOf(b).Path \in DOMAIN paths
               /\ DOMAIN paths[DocOf(b).Path] = LoweredKeys(DocOf(b))
               /\ \A m \in LoweredKeys(DocOf(a)) \ LoweredKeys(DocOf(b)) :
                      m \notin DOMAIN paths[DocOf(b).Path]
               /\ \A key \in DOMAIN paths[DocOf(b).Path] :
                      paths[DocOf(b).Path][key] \in
                          {Operation(DocOf(b).Methods[m]) :
                              m \in {x \in DOMAIN DocOf(b).Methods : ToLower(x) = key}}

\* a run over two successful records of one path, the earlier one with a
\* method the later one lacks
LastWriterWinsWitness ==
    /\ pc = "done" /\ Len(routes) = 2
    /\ Succeeded(1) /\ Succeeded(2)
    /\ DocOf(1).Path = DocOf(2).Path
    /\ LoweredKeys(DocOf(1)) \ LoweredKeys(DocOf(2)) # {}
    /\ DOMAIN paths[DocOf(2).Path] = LoweredKeys(DocOf(2))

----------------------------------------------------------------------------
(* C3: a discovery that cannot start is fatal. When the root directory     *)
(* does not exist or cannot be listed, ScanRoutes returns an error and the *)
(* run ends with status 1.                                                 *)
DiscoveryFailureIsFatal ==
    (tree.kind = "missing" \/ ~tree.readable) =>
        /\ sstage # "start" => scanned.err # NilError
        /\ sstage \notin {"start", "scanned"} =>
               sstage = "exited" /\ exit = "status 1"

----------------------------------------------------------------------------
(* C4: a reply without braces is malformed. When the text that sendRequest *)
(* returned for a route holds neither an opening nor a closing brace,      *)
(* DocumentRoute returns a parse error, the route is dropped, and the loop *)
(* goes on to the routes after it.                                         *)
Braceless(k) ==
    /\ Replies[service[k]].err = NoError
    /\ Index(Replies[service[k]].response, "{") = -1
    /\ LastIndex(Replies[service[k]].response, "}") = -1

BracelessReplyIsMalformed ==
    \A k \in DOMAIN routes :
        Braceless(k) =>
            /\ (k = i /\ pc = "returned") => res.err = Error("parse", 0)
            /\ k \in Processed => settled[k] = "dropped"
            /\ pc = "done" => Processed = DOMAIN routes

----------------------------------------------------------------------------
(* C5: stripping the fence does not change the parse. For a payload that   *)
(* starts with an opening brace and ends with a closing brace, the reply   *)
(* that wraps it in a fenced block is cleaned to the same text as the      *)
(* payload alone, and parsed to the same record or the same failure.       *)
FenceStrippingPreservesParse ==
    ( /\ tstage = "parsed"
      /\ Len(raw) > 0 /\ raw[1] = "{" /\ raw[Len(raw)] = "}" )
    => /\ cleanedFenced = cleaned
       /\ parsed.fenced = parsed.plain

\* the payload {"path":"/x"}, parsed from its fenced block
FenceStrippingWitness ==
    /\ tstage = "parsed"
    /\ raw = Chars("{\"path\":\"/x\"}")
    /\ cleanedFenced = raw
    /\ parsed.fenced.err = NoError
    /\ parsed.fenced.doc.Path = Chars("/x")

----------------------------------------------------------------------------
(* C6: the outcome of sendRequest by status. When the service answers,     *)
(* sendRequest fails with the status error carrying the code exactly when  *)
(* the status is outside 200..299; on a status inside, a body that decodes *)
(* as the envelope gives the envelope's response text as it is, and a body *)
(* that does not gives a decoding error.                                   *)
SuccessStatuses == 200..299

OutcomeByStatus ==
    (pc = "sent" /\ service[i].transport = "ok") =>
        /\ service[i].status \notin SuccessStatuses
               <=> sent.err = Error("status", service[i].status)
        /\ service[i].status \in SuccessStatuses =>
               /\ \A t \in ReplyTexts :
                      service[i].body = Envelope(t) =>
                          sent.err = NoError /\ sent.response = t
               /\ ~ParseFirst(service[i].body).ok => sent.err = Error("decode", 0)

----------------------------------------------------------------------------
(* C7: the count of discovered routes *)

RecognizedNames == {"route.js", "route.ts", "route.jsx", "route.tsx"}

\* the regular files of the tree under d with a recognized name
RECURSIVE RecognizedFiles(_)
RECURSIVE RecognizedFilesIn(_, _)
RecognizedFiles(d) ==
    IF d.kind = "dir" THEN RecognizedFilesIn(d.entries, 1)
    ELSE IF d.kind = "file" /\ d.name \in RecognizedNames THEN 1 ELSE 0

RecognizedFilesIn(entries, k) ==
    IF k > Len(entries) THEN 0
    ELSE RecognizedFiles(entries[k]) + RecognizedFilesIn(entries, k + 1)

\* the paths, in the order of the walk, of the entries with a recognized
\* name that are no directories, whose content can be read, and that are
\* under directories that can be listed
RECURSIVE ReadableRecognized(_, _)
RECURSIVE ReadableRecognizedIn(_, _, _)
ReadableRecognized(d, path) ==
    IF d.kind = "dir"
    THEN IF d.readable THEN ReadableRecognizedIn(d.entries, path, 1) ELSE <<>>
    ELSE IF d.name \in RecognizedNames /\ d.readable THEN <<path>> ELSE <<>>

ReadableRecognizedIn(entries, path, k) ==
    IF k > Len(entries) THEN <<>>
    ELSE ReadableRecognized(entries[k], path \o "/" \o entries[k].name)
         \o ReadableRecognizedIn(entries, path, k + 1)

----------------------------------------------------------------------------
(* C8: the rendering of parameters. In the document written, the           *)
(* parameters of every operation are an array with one entry per parameter *)
(* of the record's method, in the record's order, each with the record's   *)
(* name, location, required flag and type; no parameters give the empty    *)
(* array.                                                                  *)
RenderedParameters(parameters) ==
    JArr([k \in 1..Len(parameters) |->
             [name |-> parameters[k].Name,
              in |-> parameters[k].In,
              required |-> parameters[k].Required,
              schema |-> [type |-> parameters[k].Type]]])

ParametersRenderedAsArray ==
    (pc = "done" /\ exit = "status 0") =>
        \A p \in DOMAIN outputs[Len(outputs)].paths :
            \A key \in DOMAIN outputs[Len(outputs)].paths[p] :
                \E m \in DOMAIN DocOf(LastWith(p)).Methods :
                    /\ ToLower(m) = key
                    /\ outputs[Len(outputs)].paths[p][key].parameters
                           = RenderedParameters(DocOf(LastWith(p)).Methods[m].Parameters)

----------------------------------------------------------------------------
(* C9: one call per route, one at a time. A route has had its one call     *)
(* exactly when the loop has reached it, so the calls are made in the      *)
(* order of the routes and none is made twice; a route is inserted or      *)
(* dropped exactly when the loop has passed it, so before the next call is *)
(* made; and a call is in flight only while the loop waits for it.         *)
Reached(k) == k < i \/ (k = i /\ pc \in {"waiting", "sent", "returned"})

SequentialSingleAttempt ==
    /\ \A k \in DOMAIN routes :
           /\ calls[k] = IF Reached(k) THEN 1 ELSE 0
           /\ settled[k] \in {"inserted", "dropped"} <=> k \in Processed
           /\ settled[k] = "pending" <=> k \notin Processed
    /\ inflight = IF pc = "waiting" THEN 1 ELSE 0
    /\ pc = "done" => Processed = DOMAIN routes

\* the second route's call in flight after the first route failed
SequentialWitness ==
    /\ pc = "waiting" /\ i = 2 /\ inflight = 1
    /\ settled[1] = "dropped" /\ settled[2] = "pending"
    /\ calls = <<1, 1>>

----------------------------------------------------------------------------
(* C10: assembly is deterministic. Two runs over the same routes with the  *)
(* same replies write the same document.                                   *)
SameRepliesSameDocument ==
    Len(outputs) = 2 => outputs[1] = outputs[2]

----------------------------------------------------------------------------
(* C11: the sanitizer is idempotent. Cleaning a cleaned reply gives the    *)
(* cleaned reply again: cleanMarkdownJSON(cleanMarkdownJSON(x)) equals     *)
(* cleanMarkdownJSON(x) for every reply text x.                            *)
SanitizerIdempotent ==
    tstage \in {"twice", "parsed"} => cleanedTwice = cleaned

====
